---------------------------- MODULE Spec2Model ----------------------------
(***************************************************************************)
(* ProTasker (src/src/pro-tasker.jsx): a single-page Kanban board.  The    *)
(* model covers the App component's state (the workspace `data`, the       *)
(* selected project, the drag payload, pending file readers, the save      *)
(* effect and localStorage), the board and project operations, and the     *)
(* regex-based markdown renderer.                                          *)
(*                                                                         *)
(* JavaScript objects are records/functions over strings, arrays are       *)
(* sequences, `null`/`undefined` scalars are the string Null.  Fields the  *)
(* operations only copy (description, tags, body, assignee, priority,      *)
(* users, column titles) are left out of the records.                      *)
(***************************************************************************)
EXTENDS Integers, Sequences, FiniteSets, TLC

VARIABLES
    data,               \* useState: the workspace snapshot {meta, projects}
    selectedProjectId,  \* useState: id of the selected project, or Null
    dragPayload,        \* e.dataTransfer "text/plain": {cardId, fromColId}, or NoPayload
    imageReader,        \* pending FileReader of handleImageUpload: its projectId, or Null
    storage,            \* localStorage[STORAGE_KEY]: <<the stored snapshot>>, or NoItem
    effectPending,      \* the [data] save effect is scheduled and has not run yet
    mounted,            \* the component tree is on screen (no render has thrown)
    last,               \* history: the handler or operation that ran last
    calls,              \* history: how many calls (SpecOps) or events (Spec) there were
    rt,                 \* history: progress of a moveCard there-and-back round trip
    description,        \* ProjectEditor useState: the markdown source being edited
    html                \* the preview markup, renderMarkdown(description)

vars == <<data, selectedProjectId, dragPayload, imageReader, storage,
          effectPending, mounted, last, calls, rt, description, html>>

uiVars == <<selectedProjectId, dragPayload, imageReader, storage, effectPending, mounted>>
mdVars == <<description, html>>

-----------------------------------------------------------------------------
(* Bounds of the model *)

MaxProjects == 2    \* projects in the workspace
MaxCards    == 4    \* keys of one board's `cards` map
MaxEntries  == 4    \* card ids listed on one board, over all its columns
MaxIndex    == 2    \* largest toIndex passed to moveCard
MaxUid      == 2    \* distinct values uid() can return per prefix
MaxOps      == 2    \* length of a sequence of library calls (SpecOps)
MaxEvents   == 3    \* user and file-reader events handled by the app (Spec)
MaxTyped    == 2    \* characters typed into the description (SpecRender)

-----------------------------------------------------------------------------
(* JavaScript values *)

Null == "null"

\* { ...a, ...b }: the fields of b override those of a.  Spreading undefined
\* contributes no field; undefined is the empty record here.
Merge(a, b) == b @@ a
Undefined == <<>>

\* obj[key], undefined when the key is absent
Get(obj, key) == IF key \in DOMAIN obj THEN obj[key] ELSE Undefined

\* arr.filter(x => x !== v)
FilterOut(arr, v) == SelectSeq(arr, LAMBDA x : x # v)

\* A faulty insertion that keeps what splice returns, the removed elements.
SpliceResult(arr, start, item) == <<>>

\* A faulty insertion that ignores the index and appends.
PushLast(arr, start, item) == Append(arr, item)

\* const a = [...arr]; a.splice(start, 0, item): a negative start counts from
\* the end, and the start is clamped to [0, length].
SpliceIn(arr, start, item) ==
    LET len == Len(arr)
        at  == IF start < 0
               THEN (IF len + start < 0 THEN 0 ELSE len + start)
               ELSE (IF start > len THEN len ELSE start)
    IN  SubSeq(arr, 1, at) \o <<item>> \o SubSeq(arr, at + 1, len)

Range(s) == {s[i] : i \in DOMAIN s}

\* uid(prefix): prefix + "_" + 7 random base-36 digits.  Nothing checks the
\* result against the ids in use, so a value can come out twice.
UidNames == [c    |-> <<"c_a", "c_b", "c_c">>,
             proj |-> <<"proj_a", "proj_b", "proj_c">>]
uid(prefix) == {UidNames[prefix][i] : i \in 1..MaxUid}

-----------------------------------------------------------------------------
(* The seed workspace *)

ColumnIds == <<"todo", "inprogress", "done">>

sampleSeed ==
    [meta |-> "seed",
     projects |-> <<
       [id |-> "proj_1", title |-> "Website Redesign", image |-> Null,
        board |-> [
          columns |-> << [id |-> "todo",       cardIds |-> <<"c1", "c2">>],
                         [id |-> "inprogress", cardIds |-> <<"c3">>],
                         [id |-> "done",       cardIds |-> <<>>] >>,
          cards |-> [c \in {"c1", "c2", "c3"} |->
                       [id |-> c,
                        title |-> CASE c = "c1" -> "Landing hero"
                                    [] c = "c2" -> "Nav accessibility"
                                    [] c = "c3" -> "Mobile css fixes"]] ]] >>]


-----------------------------------------------------------------------------
(* Project and board operations: the functions passed to setData.  Each maps
   the current snapshot d to the next one. *)

\* The indices of the projects whose id is projectId
Matching(d, projectId) == {i \in DOMAIN d.projects : d.projects[i].id = projectId}

newProj(id) ==
    [id |-> id, title |-> "New Project", image |-> Null,
     board |-> [columns |-> [k \in DOMAIN ColumnIds |->
                               [id |-> ColumnIds[k], cardIds |-> <<>>]],
                cards |-> Undefined]]

\* A faulty creation that puts the new project last.
createProjectLast(d, id) == [d EXCEPT !.projects = d.projects \o <<newProj(id)>>]

\* setData((d) => ({ ...d, projects: [newProj, ...d.projects] }))
createProject(d, id) == [d EXCEPT !.projects = <<newProj(id)>> \o d.projects]

updateProject(d, projectId, patch) ==
    [d EXCEPT !.projects = [i \in DOMAIN d.projects |->
        IF d.projects[i].id = projectId THEN Merge(d.projects[i], patch)
                                        ELSE d.projects[i]]]

deleteProject(d, projectId) ==
    [d EXCEPT !.projects = SelectSeq(d.projects, LAMBDA p : p.id # projectId)]

\* uids[i] is the value uid("c") returns for the i-th project (it is called
\* once per matching project, inside the map).
addCard(d, projectId, columnId, card, uids) ==
    [d EXCEPT !.projects = [i \in DOMAIN d.projects |->
        LET p == d.projects[i] IN
        IF p.id # projectId THEN p
        ELSE LET cardId == uids[i] IN
             [p EXCEPT !.board =
                [columns |-> [k \in DOMAIN p.board.columns |->
                    LET col == p.board.columns[k] IN
                    IF col.id = columnId
                    THEN [col EXCEPT !.cardIds = <<cardId>> \o col.cardIds]
                    ELSE col],
                 cards |-> Merge(p.board.cards,
                                 cardId :> Merge([id |-> cardId], card))]]]]

moveCard(d, projectId, fromColId, toColId, cardId, toIndex) ==
    [d EXCEPT !.projects = [i \in DOMAIN d.projects |->
        LET p == d.projects[i] IN
        IF p.id # projectId THEN p
        ELSE [p EXCEPT !.board.columns = [k \in DOMAIN p.board.columns |->
                LET col == p.board.columns[k] IN
                IF col.id = fromColId
                THEN [col EXCEPT !.cardIds = FilterOut(col.cardIds, cardId)]
                ELSE IF col.id = toColId
                THEN [col EXCEPT !.cardIds = SpliceIn(col.cardIds, toIndex, cardId)]
                ELSE col]]]]

updateCard(d, projectId, cardId, patch) ==
    [d EXCEPT !.projects = [i \in DOMAIN d.projects |->
        LET p == d.projects[i] IN
        IF p.id # projectId THEN p
        ELSE [p EXCEPT !.board.cards =
                Merge(p.board.cards,
                      cardId :> Merge(Get(p.board.cards, cardId), patch))]]]

-----------------------------------------------------------------------------
(* Views of a board used by the properties *)

\* how many times id is listed in sequence s
Count(s, id) == Cardinality({i \in DOMAIN s : s[i] = id})

\* how many times id is listed on the board, over all columns
Listed(board, id) ==
    LET RECURSIVE sum(_)
        sum(k) == IF k = 0 THEN 0
                  ELSE Count(board.columns[k].cardIds, id) + sum(k - 1)
    IN  sum(Len(board.columns))

Entries(board) ==
    LET RECURSIVE sum(_)
        sum(k) == IF k = 0 THEN 0
                  ELSE Len(board.columns[k].cardIds) + sum(k - 1)
    IN  sum(Len(board.columns))

ListedIds(board) == UNION {Range(board.columns[k].cardIds) : k \in DOMAIN board.columns}

\* the column with this id (the first one), or Undefined
ColumnOf(board, colId) ==
    IF \E k \in DOMAIN board.columns : board.columns[k].id = colId
    THEN board.columns[CHOOSE k \in DOMAIN board.columns :
                          /\ board.columns[k].id = colId
                          /\ \A j \in 1..(k - 1) : board.columns[j].id # colId]
    ELSE Undefined

HasColumn(board, colId) == \E k \in DOMAIN board.columns : board.columns[k].id = colId

\* which ids each column holds, order and multiplicity forgotten
Membership(board) == [k \in DOMAIN board.columns |-> Range(board.columns[k].cardIds)]

\* The board invariant of the data model: every key of `cards` is listed
\* exactly once on the board and every listed id is a key of `cards`.
BoardConsistent(board) ==
    /\ \A id \in DOMAIN board.cards : Listed(board, id) = 1
    /\ ListedIds(board) \subseteq DOMAIN board.cards

\* The model's size limits
WithinBounds(d) ==
    /\ Len(d.projects) <= MaxProjects
    /\ \A i \in DOMAIN d.projects :
         /\ Cardinality(DOMAIN d.projects[i].board.cards) <= MaxCards
         /\ Entries(d.projects[i].board) <= MaxEntries


-----------------------------------------------------------------------------
(* The operations as a library: each one applied to the current snapshot
   with arbitrary arguments, whether or not they name anything that exists. *)

NoCall == [op |-> "none"]

\* localStorage holds no item, or the snapshot last written: <<>> or <<d>>
NoItem == <<>>
NoPayload == [cardId |-> Null, fromColId |-> Null]

ProjectArgs(d) == {d.projects[i].id : i \in DOMAIN d.projects} \cup {"proj_0"}
ColumnArgs     == Range(ColumnIds) \cup {"archive"}
CardArgs(d)    == UNION {DOMAIN d.projects[i].board.cards : i \in DOMAIN d.projects}
                    \cup uid("c") \cup {"c9"}
IndexArgs      == 0..MaxIndex
CardFields     == {[title |-> "New"], [id |-> "c1", title |-> "New"]}
CardPatches    == {[title |-> "Edited"]}

\* moveCard is called as the drop handler calls it: between two different
\* columns of the board, with a card listed in the source column.
MovePre(board, fromColId, toColId, cardId) ==
    /\ fromColId # toColId
    /\ HasColumn(board, fromColId)
    /\ HasColumn(board, toColId)
    /\ cardId \in Range(ColumnOf(board, fromColId).cardIds)

OpCreateProject ==
    /\ calls < MaxOps
    /\ \E id \in uid("proj") :
        /\ WithinBounds(createProject(data, id))
        /\ data' = createProject(data, id)
        /\ last' = [op |-> "createProject", id |-> id]
        /\ rt' = [stage |-> 0]
        /\ calls' = calls + 1
        /\ UNCHANGED <<uiVars, mdVars>>

OpAddCard ==
    /\ calls < MaxOps
    /\ \E projectId \in ProjectArgs(data), columnId \in ColumnArgs, card \in CardFields :
      \E uids \in [Matching(data, projectId) -> uid("c")] :
        /\ WithinBounds(addCard(data, projectId, columnId, card, uids))
        /\ data' = addCard(data, projectId, columnId, card, uids)
        /\ last' = [op |-> "addCard", projectId |-> projectId,
                    columnId |-> columnId, card |-> card, uids |-> uids]
        /\ rt' = [stage |-> 0]
        /\ calls' = calls + 1
        /\ UNCHANGED <<uiVars, mdVars>>

OpMoveCard ==
    /\ calls < MaxOps
    /\ \E projectId \in ProjectArgs(data), fromColId \in ColumnArgs, toColId \in ColumnArgs,
       cardId \in CardArgs(data), toIndex \in IndexArgs :
        /\ WithinBounds(moveCard(data, projectId, fromColId, toColId, cardId, toIndex))
        /\ data' = moveCard(data, projectId, fromColId, toColId, cardId, toIndex)
        /\ last' = [op |-> "moveCard", projectId |-> projectId]
        /\ rt' = [stage |-> 0]
        /\ calls' = calls + 1
        /\ UNCHANGED <<uiVars, mdVars>>

OpUpdateCard ==
    /\ calls < MaxOps
    /\ \E projectId \in ProjectArgs(data), cardId \in CardArgs(data), patch \in CardPatches :
        /\ WithinBounds(updateCard(data, projectId, cardId, patch))
        /\ data' = updateCard(data, projectId, cardId, patch)
        /\ last' = [op |-> "updateCard", projectId |-> projectId,
                    cardId |-> cardId, patch |-> patch]
        /\ rt' = [stage |-> 0]
        /\ calls' = calls + 1
        /\ UNCHANGED <<uiVars, mdVars>>

InitOps ==
    /\ data = sampleSeed
    /\ selectedProjectId = "proj_1"
    /\ dragPayload = NoPayload
    /\ imageReader = Null
    /\ storage = NoItem
    /\ effectPending = FALSE
    /\ mounted = TRUE
    /\ last = NoCall
    /\ calls = 0
    /\ rt = [stage |-> 0]
    /\ description = <<>>
    /\ html = <<>>

NextOps == OpCreateProject \/ OpAddCard \/ OpMoveCard \/ OpUpdateCard

SpecOps == InitOps /\ [][NextOps]_vars


-----------------------------------------------------------------------------
(* The App component: its handlers, file-reader callbacks and effects.  Every
   handler runs to completion.  The effects of a render run before the next
   event is handled, so a handler is enabled only once they have run. *)

\* find() finding nothing, and the `null` the code falls back to
NoProject == [id |-> Null]

\* data.projects.find((p) => p.id === id)
find(d, id) ==
    IF Matching(d, id) = {} THEN NoProject
    ELSE d.projects[CHOOSE i \in Matching(d, id) : \A j \in Matching(d, id) : i <= j]

\* The search box is left empty: every project passes the filter.
projectList(d) == d.projects

\* data.projects.find(...) || projectList[0] || null: the project on display
selectedProject(d, sel) ==
    IF find(d, sel) # NoProject THEN find(d, sel)
    ELSE IF Len(projectList(d)) > 0 THEN projectList(d)[1]
    ELSE NoProject

\* Board reads card.title of board.cards[cardId] for every listed id: with an
\* id that is no key of `cards` the render throws and the app is gone.
Renders(d, sel) ==
    IF selectedProject(d, sel) = NoProject THEN TRUE
    ELSE ListedIds(selectedProject(d, sel).board)
            \subseteq DOMAIN selectedProject(d, sel).board.cards

\* if (!selectedProjectId && selectedProject) of the selection effect
SelectionDue == selectedProjectId = Null /\ selectedProject(data, selectedProjectId) # NoProject

\* the app is on screen and waits for an event
Idle ==
    /\ calls < MaxEvents
    /\ mounted
    /\ ~effectPending
    /\ ~SelectionDue

\* setData(...) (and setSelectedProjectId) followed by the render: the new
\* state is committed and the [data] effect scheduled, unless the render
\* throws: nothing catches that, React unmounts the tree, no effect runs.
Commit(d, sel) ==
    IF Renders(d, sel)
    THEN /\ data' = d
         /\ selectedProjectId' = sel
         /\ effectPending' = TRUE
         /\ mounted' = TRUE
    ELSE /\ mounted' = FALSE
         /\ UNCHANGED <<data, selectedProjectId, effectPending>>

\* Files the user can pick for import, and what JSON.parse makes of them:
\* a SyntaxError, or the parsed value.
backup ==
    [meta |-> "backup",
     projects |-> <<
       [id |-> "proj_1", title |-> "Website Redesign", image |-> Null,
        board |-> [
          columns |-> << [id |-> "todo",       cardIds |-> <<"c2">>],
                         [id |-> "inprogress", cardIds |-> <<"c3">>],
                         [id |-> "done",       cardIds |-> <<"c1">>] >>,
          cards |-> sampleSeed.projects[1].board.cards ]] >>]

Files == {"not json", "null", "42", "{\"meta\":1}", "{\"projects\":null}",
          "{\"projects\":[]}", "backup.json"}

\* A parsed value is tagged with its JavaScript type; an object carries its
\* fields.
JSONparse(text) ==
    CASE text = "not json"            -> [throws |-> TRUE]
      [] text = "null"                -> [throws |-> FALSE, value |-> [type |-> "null"]]
      [] text = "42"                  -> [throws |-> FALSE, value |-> [type |-> "number"]]
      [] text = "{\"meta\":1}"        -> [throws |-> FALSE, value |->
                                              [type |-> "object", fields |-> {"meta"}]]
      [] text = "{\"projects\":null}" -> [throws |-> FALSE, value |->
                                              [type |-> "object", fields |-> {"projects"},
                                               projects |-> [type |-> "null"]]]
      [] text = "{\"projects\":[]}"   -> [throws |-> FALSE, value |->
                                              [type |-> "object", fields |-> {"projects"},
                                               projects |-> [type |-> "array"],
                                               object |-> [projects |-> <<>>]]]
      [] text = "backup.json"         -> [throws |-> FALSE, value |->
                                              [type |-> "object", fields |-> {"meta", "projects"},
                                               projects |-> [type |-> "array"],
                                               object |-> backup]]

\* obj.projects: undefined on a number and on an object without the field
projectsOf(v) ==
    IF v.type = "object" /\ "projects" \in v.fields THEN v.projects
    ELSE [type |-> "undefined"]

\* JavaScript truthiness of null, undefined, a non-zero number, an object,
\* an array
Truthy(v) == v.type \notin {"null", "undefined"}

\* obj && obj.projects
importAccepts(v) == Truthy(v) /\ Truthy(projectsOf(v))

\* A faulty import that refuses a file without `projects` silently.
importJSONSilent(d, text) ==
    LET r == JSONparse(text) IN
    IF r.throws THEN [data |-> d, set |-> FALSE, alert |-> "Could not parse JSON"]
    ELSE IF importAccepts(r.value) THEN [data |-> r.value.object, set |-> TRUE, alert |-> Null]
    ELSE [data |-> d, set |-> FALSE, alert |-> Null]

\* reader.onload of importJSON: what it does to the workspace, and the alert
importJSON(d, text) ==
    LET r == JSONparse(text) IN
    IF r.throws THEN [data |-> d, set |-> FALSE, alert |-> "Could not parse JSON"]
    ELSE IF importAccepts(r.value) THEN [data |-> r.value.object, set |-> TRUE, alert |-> Null]
    ELSE [data |-> d, set |-> FALSE, alert |-> "Invalid file"]

\* A faulty save whose failed write leaves the store empty.
saveDataOrClear(d, ok) == IF ok THEN <<d>> ELSE <<>>

\* saveData(data): on success the item is the snapshot; localStorage.setItem
\* may throw (quota, storage disabled), and the catch logs and returns.
saveData(d, ok) == IF ok THEN <<d>> ELSE storage

Init ==
    /\ data = sampleSeed
    /\ selectedProjectId = "proj_1"
    /\ dragPayload = NoPayload
    /\ imageReader = Null
    /\ storage = NoItem
    /\ effectPending = TRUE
    /\ mounted = TRUE
    /\ last = NoCall
    /\ calls = 0
    /\ rt = [stage |-> 0]
    /\ description = <<>>
    /\ html = <<>>

effectVars == <<calls, rt>>

\* useEffect(() => saveData(data), [data])
SaveEffect ==
    /\ mounted
    /\ effectPending
    /\ \E ok \in BOOLEAN :
         /\ storage' = saveData(data, ok)
         /\ last' = [op |-> "saveEffect", ok |-> ok]
    /\ effectPending' = FALSE
    /\ UNCHANGED <<data, selectedProjectId, dragPayload, imageReader, mounted,
                   effectVars, mdVars>>

\* useEffect: if (!selectedProjectId && selectedProject) setSelectedProjectId(...)
SelectionEffect ==
    /\ mounted
    /\ SelectionDue
    /\ selectedProjectId' = selectedProject(data, selectedProjectId).id
    /\ last' = [op |-> "selectionEffect"]
    /\ UNCHANGED <<data, dragPayload, imageReader, storage, effectPending, mounted,
                   effectVars, mdVars>>

\* the Save button: saveData(data); alert("Saved")
ClickSave ==
    /\ Idle
    /\ calls' = calls + 1
    /\ \E ok \in BOOLEAN :
         /\ storage' = saveData(data, ok)
         /\ last' = [op |-> "clickSave", ok |-> ok]
    /\ UNCHANGED <<data, selectedProjectId, dragPayload, imageReader, effectPending,
                   mounted, rt, mdVars>>

CreateProject ==
    /\ Idle
    /\ calls' = calls + 1
    /\ \E id \in uid("proj") :
         /\ WithinBounds(createProject(data, id))
         /\ Commit(createProject(data, id), id)
         /\ last' = [op |-> "createProject", id |-> id]
    /\ UNCHANGED <<dragPayload, imageReader, storage, rt, mdVars>>

\* the Delete button of the project on display; confirm() may be declined
DeleteProject ==
    /\ Idle
    /\ calls' = calls + 1
    /\ selectedProject(data, selectedProjectId) # NoProject
    /\ LET projectId == selectedProject(data, selectedProjectId).id IN
       \E confirmed \in BOOLEAN :
         /\ IF confirmed
            THEN Commit(deleteProject(data, projectId),
                        IF selectedProjectId = projectId THEN Null ELSE selectedProjectId)
            ELSE UNCHANGED <<data, selectedProjectId, effectPending, mounted>>
         /\ last' = [op |-> "deleteProject", confirmed |-> confirmed]
    /\ UNCHANGED <<dragPayload, imageReader, storage, rt, mdVars>>

\* a click on a project of the sidebar list
SelectProject ==
    /\ Idle
    /\ calls' = calls + 1
    /\ \E i \in DOMAIN projectList(data) :
         /\ selectedProjectId' = projectList(data)[i].id
         /\ mounted' = Renders(data, projectList(data)[i].id)
    /\ last' = [op |-> "selectProject"]
    /\ UNCHANGED <<data, dragPayload, imageReader, storage, effectPending, rt, mdVars>>

\* Board.handleAdd on a column of the board on display: an empty title is
\* refused with an alert, otherwise addCard(selectedProject.id, colId, ...)
HandleAdd ==
    /\ Idle
    /\ calls' = calls + 1
    /\ selectedProject(data, selectedProjectId) # NoProject
    /\ LET proj == selectedProject(data, selectedProjectId) IN
       \E k \in DOMAIN proj.board.columns, newCardTitle \in {"", "New"} :
         IF newCardTitle = ""
         THEN /\ last' = [op |-> "handleAdd", alert |-> "Give the card a title."]
              /\ UNCHANGED <<data, selectedProjectId, effectPending, mounted>>
         ELSE \E uids \in [Matching(data, proj.id) -> uid("c")] :
                LET next == addCard(data, proj.id, proj.board.columns[k].id,
                                    [title |-> newCardTitle], uids) IN
                /\ WithinBounds(next)
                /\ Commit(next, selectedProjectId)
                /\ last' = [op |-> "handleAdd", alert |-> Null]
    /\ UNCHANGED <<dragPayload, imageReader, storage, rt, mdVars>>

\* dragstart on a card of the board on display
OnDragStart ==
    /\ Idle
    /\ calls' = calls + 1
    /\ selectedProject(data, selectedProjectId) # NoProject
    /\ LET board == selectedProject(data, selectedProjectId).board IN
       \E k \in DOMAIN board.columns :
         \E cardId \in Range(board.columns[k].cardIds) :
            dragPayload' = [cardId |-> cardId, fromColId |-> board.columns[k].id]
    /\ last' = [op |-> "onDragStart"]
    /\ UNCHANGED <<data, selectedProjectId, imageReader, storage, effectPending, mounted,
                   rt, mdVars>>

\* The payload names a card the source column of the selected project lists
PayloadCurrent(d, sel, payload) ==
    /\ find(d, sel) # NoProject
    /\ HasColumn(find(d, sel).board, payload.fromColId)
    /\ payload.cardId \in Range(ColumnOf(find(d, sel).board, payload.fromColId).cardIds)

\* drop on a column of the board on display; moveCard gets the default toIndex
OnDropCard ==
    /\ Idle
    /\ calls' = calls + 1
    /\ dragPayload # NoPayload
    /\ selectedProject(data, selectedProjectId) # NoProject
    /\ LET board == selectedProject(data, selectedProjectId).board IN
       \E k \in DOMAIN board.columns :
         LET toColId == board.columns[k].id
             moves   == /\ find(data, selectedProjectId) # NoProject
                        /\ dragPayload.fromColId # toColId
             next    == moveCard(data, selectedProjectId, dragPayload.fromColId,
                                 toColId, dragPayload.cardId, 0)
         IN  /\ IF moves
                THEN WithinBounds(next) /\ Commit(next, selectedProjectId)
                ELSE UNCHANGED <<data, selectedProjectId, effectPending, mounted>>
             /\ last' = [op |-> "onDropCard", moved |-> moves,
                         stale |-> ~PayloadCurrent(data, selectedProjectId, dragPayload)]
    /\ dragPayload' = NoPayload
    /\ UNCHANGED <<imageReader, storage, rt, mdVars>>

\* the Import input: reader.onload runs once the file is read.  Picking the
\* file changes no state of the app, so the file is chosen here.
ImportOnload ==
    /\ Idle
    /\ calls' = calls + 1
    /\ \E text \in Files :
         LET r == importJSON(data, text) IN
         /\ IF r.set
            THEN Commit(r.data, selectedProjectId)
            ELSE UNCHANGED <<data, selectedProjectId, effectPending, mounted>>
         /\ last' = [op |-> "importJSON", text |-> text, set |-> r.set, alert |-> r.alert]
    /\ UNCHANGED <<dragPayload, imageReader, storage, rt, mdVars>>

\* handleImageUpload(selectedProject.id, file): starts a FileReader
HandleImageUpload ==
    /\ Idle
    /\ calls' = calls + 1
    /\ selectedProject(data, selectedProjectId) # NoProject
    /\ imageReader = Null
    /\ imageReader' = selectedProject(data, selectedProjectId).id
    /\ last' = [op |-> "handleImageUpload"]
    /\ UNCHANGED <<data, selectedProjectId, dragPayload, storage, effectPending, mounted,
                   rt, mdVars>>

\* its reader.onload: updateProject(projectId, { image: reader.result })
ImageOnload ==
    /\ Idle
    /\ calls' = calls + 1
    /\ imageReader # Null
    /\ Commit(updateProject(data, imageReader, [image |-> "data:image"]), selectedProjectId)
    /\ imageReader' = Null
    /\ last' = [op |-> "imageOnload"]
    /\ UNCHANGED <<dragPayload, storage, rt, mdVars>>

Next ==
    \/ SaveEffect
    \/ SelectionEffect
    \/ ClickSave
    \/ CreateProject
    \/ DeleteProject
    \/ SelectProject
    \/ HandleAdd
    \/ OnDragStart
    \/ OnDropCard
    \/ ImportOnload
    \/ HandleImageUpload
    \/ ImageOnload

Spec == Init /\ [][Next]_vars

\* The save effect is a scheduled callback: once due it runs.
FairSpec == Spec /\ WF_vars(SaveEffect) /\ WF_vars(SelectionEffect)

\* Sequences of addCard and moveCard calls only
NextAddMove == OpAddCard \/ OpMoveCard

SpecAddMove == InitOps /\ [][NextAddMove]_vars

-----------------------------------------------------------------------------
(* moveCard on every arrangement of the seed cards: the boards that moves    *)
(* between the three columns make of the seed board.                        *)

Orderings(S) ==
    {s \in [1..Cardinality(S) -> S] : \A i, j \in DOMAIN s : i # j => s[i] # s[j]}

\* the seed cards in the order p, cut into the three columns after i and j
Arrangement(p, i, j) ==
    [columns |-> << [id |-> "todo",       cardIds |-> SubSeq(p, 1, i)],
                    [id |-> "inprogress", cardIds |-> SubSeq(p, i + 1, j)],
                    [id |-> "done",       cardIds |-> SubSeq(p, j + 1, Len(p))] >>,
     cards |-> sampleSeed.projects[1].board.cards]

Arrangements ==
    {Arrangement(p, c[1], c[2]) :
        p \in Orderings(DOMAIN sampleSeed.projects[1].board.cards),
        c \in {c \in (0..3) \X (0..3) : c[1] <= c[2]}}

InitMove ==
    /\ data \in {[sampleSeed EXCEPT !.projects[1].board = b] : b \in Arrangements}
    /\ selectedProjectId = "proj_1"
    /\ dragPayload = NoPayload
    /\ imageReader = Null
    /\ storage = NoItem
    /\ effectPending = FALSE
    /\ mounted = TRUE
    /\ last = NoCall
    /\ calls = 0
    /\ rt = [stage |-> 0]
    /\ description = <<>>
    /\ html = <<>>

\* One call of moveCard, with any arguments.  A move to index 0 of a card
\* listed in its source column, to another column, starts a round trip.
MoveThere ==
    /\ calls = 0
    /\ \E projectId \in ProjectArgs(data), fromColId \in ColumnArgs, toColId \in ColumnArgs,
          cardId \in CardArgs(data), toIndex \in IndexArgs :
         LET ok == \E i \in Matching(data, projectId) :
                      MovePre(data.projects[i].board, fromColId, toColId, cardId)
         IN  /\ data' = moveCard(data, projectId, fromColId, toColId, cardId, toIndex)
             /\ last' = [op |-> "moveCard", ok |-> ok,
                         pastEnd |-> \E i \in Matching(data, projectId) :
                            /\ MovePre(data.projects[i].board, fromColId, toColId, cardId)
                            /\ toIndex > Len(ColumnOf(data.projects[i].board, toColId).cardIds)]
             /\ rt' = IF ok /\ toIndex = 0
                      THEN [stage |-> 1, pre |-> data,
                            call |-> [projectId |-> projectId, fromColId |-> fromColId,
                                      toColId |-> toColId, cardId |-> cardId]]
                      ELSE [stage |-> 0]
    /\ calls' = 1
    /\ UNCHANGED <<uiVars, mdVars>>

\* The reverse call right after it: moveCard(B, A, c, 0)
MoveBack ==
    /\ rt.stage = 1
    /\ data' = moveCard(data, rt.call.projectId, rt.call.toColId, rt.call.fromColId,
                        rt.call.cardId, 0)
    /\ last' = [op |-> "moveBack"]
    /\ rt' = [rt EXCEPT !.stage = 2]
    /\ calls' = 2
    /\ UNCHANGED <<uiVars, mdVars>>

NextMove == MoveThere \/ MoveBack

SpecMove == InitMove /\ [][NextMove]_vars

-----------------------------------------------------------------------------
(* renderMarkdown (src/pro-tasker.jsx:33-62).  A text is a sequence whose   *)
(* elements are single characters, or whole pieces of markup emitted by a  *)
(* replacement template.  A template piece is kept as one element: none of *)
(* the templates contains a backtick, "*", "[", "]", "(", ")", or a "#" or  *)
(* "-" at the start of a line, so no later pattern can match inside one;   *)
(* "." and the negated classes match a piece like any other character.     *)

NL == "\n"
\* the grave accent, which a TLA+ string cannot hold
Backtick == "GRAVE"
Whitespace == {" ", NL}

NoMatch == [len |-> 0, out |-> <<>>]

\* String.prototype.replace with a /g pattern: leftmost matches, left to
\* right, never overlapping; every pattern here matches at least one character.
\* matchAt[i] is the match of the pattern starting at position i of t, if any.
RECURSIVE ReplaceAll(_, _, _)
ReplaceAll(matchAt, t, i) ==
    IF i > Len(t) THEN <<>>
    ELSE IF matchAt[i].len > 0
         THEN matchAt[i].out \o ReplaceAll(matchAt, t, i + matchAt[i].len)
         ELSE <<t[i]>> \o ReplaceAll(matchAt, t, i + 1)

\* a greedy [...]* : the length of the longest run of characters of S from i
RECURSIVE RunOf(_, _, _)
RunOf(S, t, i) ==
    IF i <= Len(t) /\ t[i] \in S THEN 1 + RunOf(S, t, i + 1) ELSE 0

\* a greedy [^...]* or .* : the longest run of characters outside S from i
RECURSIVE RunNot(_, _, _)
RunNot(S, t, i) ==
    IF i <= Len(t) /\ t[i] \notin S THEN 1 + RunNot(S, t, i + 1) ELSE 0

At(t, i, e) == i \in 1..Len(t) /\ t[i] = e
Occurs(t, j, pat) ==
    j >= 1 /\ j + Len(pat) - 1 <= Len(t) /\ SubSeq(t, j, j + Len(pat) - 1) = pat
\* a lazy X*? followed by pat: the first place at or after i where pat occurs
Find(t, i, pat) ==
    LET S == {j \in i..Len(t) : Occurs(t, j, pat)}
    IN  IF S = {} THEN 0 ELSE CHOOSE j \in S : \A k \in S : j <= k
\* ^ under the m flag
LineStart(t, i) == i = 1 \/ t[i - 1] = NL
OneLine(t, a, b) == \A k \in a..b : t[k] # NL

ReplaceChar(s, c, entity) ==
    ReplaceAll([i \in DOMAIN s |-> IF s[i] = c THEN [len |-> 1, out |-> entity]
                                                ELSE NoMatch],
               s, 1)

\* A faulty escape that leaves the angle brackets alone.
escapeAmpOnly(s) == ReplaceChar(s, "&", <<"&", "a", "m", "p", ";">>)

\* s.replace(/&/g, "&amp;").replace(/</g, "&lt;").replace(/>/g, "&gt;")
escapeHtml(s) ==
    LET amp == ReplaceChar(s, "&", <<"&", "a", "m", "p", ";">>)
        lt  == ReplaceChar(amp, "<", <<"&", "l", "t", ";">>)
    IN  ReplaceChar(lt, ">", <<"&", "g", "t", ";">>)

PreOpen == "<pre class=\"rounded p-2 bg-gray-900 text-white text-sm overflow-auto\"><code>"
PreClose == "</code></pre>"
CodeOpen == "<code class=\"rounded bg-gray-200 px-1\">"
CodeClose == "</code>"
H3Open == "<h3 class=\"text-lg font-semibold\">"
H3Close == "</h3>"
H2Open == "<h2 class=\"text-xl font-bold\">"
H2Close == "</h2>"
H1Open == "<h1 class=\"text-2xl font-extrabold\">"
H1Close == "</h1>"
StrongOpen == "<strong>"
StrongClose == "</strong>"
EmOpen == "<em>"
EmClose == "</em>"
AOpen == "<a href=\""
AMid == "\" target=\"_blank\" rel=\"noreferrer\" class=\"underline\">"
AClose == "</a>"
UlOpen == "<ul><li>"
UlClose == "</li></ul>"
ParaBreak == "</p><p>"
DivOpen == "<div class=\"prose max-w-none\"><p>"
DivClose == "</p></div>"

Fence == <<Backtick, Backtick, Backtick>>

\* /```([\s\S]*?)```/g
codeBlockAt(t, i) ==
    IF ~Occurs(t, i, Fence) THEN NoMatch
    ELSE LET j == Find(t, i + 3, Fence) IN
         IF j = 0 THEN NoMatch
         ELSE [len |-> j + 3 - i,
               out |-> <<NL, PreOpen>> \o SubSeq(t, i + 3, j - 1) \o <<PreClose, NL>>]

\* /`([^`]+)`/g
inlineCodeAt(t, i) ==
    IF t[i] # Backtick THEN NoMatch
    ELSE LET n == RunNot({Backtick}, t, i + 1) IN
         IF n >= 1 /\ At(t, i + 1 + n, Backtick)
         THEN [len |-> n + 2,
               out |-> <<CodeOpen>> \o SubSeq(t, i + 1, i + n) \o <<CodeClose>>]
         ELSE NoMatch

\* /^### (.*$)/gim, /^## (.*$)/gim, /^# (.*$)/gim
headingAt(t, i, marker, open, close) ==
    IF LineStart(t, i) /\ Occurs(t, i, marker)
    THEN LET n == RunNot({NL}, t, i + Len(marker)) IN
         [len |-> Len(marker) + n,
          out |-> <<open>> \o SubSeq(t, i + Len(marker), i + Len(marker) + n - 1)
                           \o <<close>>]
    ELSE NoMatch

\* /\*\*(.*?)\*\*/gim and /\*(.*?)\*/gim
emphasisAt(t, i, stars, open, close) ==
    IF ~Occurs(t, i, stars) THEN NoMatch
    ELSE LET a == i + Len(stars)
             j == Find(t, a, stars)
         IN  IF j # 0 /\ OneLine(t, a, j - 1)
             THEN [len |-> j + Len(stars) - i,
                   out |-> <<open>> \o SubSeq(t, a, j - 1) \o <<close>>]
             ELSE NoMatch

\* /\[([^\]]+)\]\(([^)]+)\)/gim
linkAt(t, i) ==
    IF t[i] # "[" THEN NoMatch
    ELSE LET n == RunNot({"]"}, t, i + 1)
             m == RunNot({")"}, t, i + 3 + n)
         IN  IF /\ n >= 1
                /\ At(t, i + 1 + n, "]")
                /\ At(t, i + 2 + n, "(")
                /\ m >= 1
                /\ At(t, i + 3 + n + m, ")")
             THEN [len |-> n + m + 4,
                   out |-> <<AOpen>> \o SubSeq(t, i + 3 + n, i + 2 + n + m)
                                     \o <<AMid>> \o SubSeq(t, i + 1, i + n)
                                     \o <<AClose>>]
             ELSE NoMatch

\* \s*-\s+(.*) tried at p, after the group (^|\n) has matched g1 from i
listItemAt(t, i, p, g1) ==
    LET w == RunOf(Whitespace, t, p)
        v == RunOf(Whitespace, t, p + w + 1)
        a == p + w + 1 + v
        r == RunNot({NL}, t, a)
    IN  IF At(t, p + w, "-") /\ v >= 1
        THEN [len |-> a + r - i,
              out |-> g1 \o <<UlOpen>> \o SubSeq(t, a, a + r - 1) \o <<UlClose>>]
        ELSE NoMatch

\* /(^|\n)\s*-\s+(.*)/gim
listAt(t, i) ==
    LET first == IF LineStart(t, i) THEN listItemAt(t, i, i, <<>>) ELSE NoMatch
    IN  IF first.len > 0 THEN first
        ELSE IF t[i] = NL THEN listItemAt(t, i, i + 1, <<NL>>)
        ELSE NoMatch

\* /\n\n+/g
paragraphAt(t, i) ==
    LET n == RunOf({NL}, t, i)
    IN  IF n >= 2 THEN [len |-> n, out |-> <<ParaBreak>>] ELSE NoMatch

\* text.replace(pattern, template) for each pattern in turn
replaceCodeBlocks(t) == ReplaceAll([i \in DOMAIN t |-> codeBlockAt(t, i)], t, 1)
replaceInlineCode(t) == ReplaceAll([i \in DOMAIN t |-> inlineCodeAt(t, i)], t, 1)
replaceHeadings(t, marker, open, close) ==
    ReplaceAll([i \in DOMAIN t |-> headingAt(t, i, marker, open, close)], t, 1)
replaceEmphasis(t, stars, open, close) ==
    ReplaceAll([i \in DOMAIN t |-> emphasisAt(t, i, stars, open, close)], t, 1)
replaceLinks(t) == ReplaceAll([i \in DOMAIN t |-> linkAt(t, i)], t, 1)
replaceLists(t) == ReplaceAll([i \in DOMAIN t |-> listAt(t, i)], t, 1)
replaceParagraphs(t) == ReplaceAll([i \in DOMAIN t |-> paragraphAt(t, i)], t, 1)

renderMarkdown(md) ==
    IF md = <<>> THEN <<>>
    ELSE LET escaped == escapeHtml(md)
             blocks  == replaceCodeBlocks(escaped)
             inline  == replaceInlineCode(blocks)
             h3      == replaceHeadings(inline, <<"#", "#", "#", " ">>, H3Open, H3Close)
             h2      == replaceHeadings(h3, <<"#", "#", " ">>, H2Open, H2Close)
             h1      == replaceHeadings(h2, <<"#", " ">>, H1Open, H1Close)
             bold    == replaceEmphasis(h1, <<"*", "*">>, StrongOpen, StrongClose)
             italic  == replaceEmphasis(bold, <<"*">>, EmOpen, EmClose)
             links   == replaceLinks(italic)
             lists   == replaceLists(links)
             paras   == replaceParagraphs(lists)
         IN  <<DivOpen>> \o paras \o <<DivClose>>

(* The editor: a description is typed into the textarea and the preview is  *)
(* renderMarkdown(description) on every render.                             *)

\* the characters typed
Chars == {"<", ">", "&", "a", "*", Backtick, "#", " ", NL, "-", "[", "]", "(", ")"}

Script == <<"<", "s", "c", "r", "i", "p", "t", ">">>

\* descriptions a project is opened with (project.description || "")
Descriptions ==
    { <<>>,
      Script,
      <<"*", "*", "<", "a", ">", "*", "*">>,
      <<Backtick, Backtick, Backtick, "<", "a", ">", Backtick, Backtick, Backtick>>,
      <<"[", "<", "]", "(", ">", "&", ")">>,
      <<"#", "#", " ", "<", NL, NL, "-", " ", ">">>,
      <<Backtick, "<", Backtick, "*", ">", "*">> }

InitRender ==
    /\ data = sampleSeed
    /\ selectedProjectId = "proj_1"
    /\ dragPayload = NoPayload
    /\ imageReader = Null
    /\ storage = NoItem
    /\ effectPending = FALSE
    /\ mounted = TRUE
    /\ last = NoCall
    /\ calls = 0
    /\ rt = [stage |-> 0]
    /\ description \in Descriptions
    /\ html = renderMarkdown(description)

\* textarea onChange: setDescription(e.target.value), then the re-render
SetDescription ==
    /\ calls < MaxTyped
    /\ \E c \in Chars : description' = Append(description, c)
    /\ html' = renderMarkdown(description')
    /\ calls' = calls + 1
    /\ UNCHANGED <<data, uiVars, last, rt>>

NextRender == SetDescription

SpecRender == InitRender /\ [][NextRender]_vars

-----------------------------------------------------------------------------
(* Claims about the board operations *)

Boards(d) == {d.projects[i].board : i \in DOMAIN d.projects}

\* C1: after every addCard or moveCard call, whatever its arguments, every
\* key of `cards` is listed exactly once on the board (in exactly one column)
\* and every listed id is a key of `cards`.
C1_BoardInvariant == \A board \in Boards(data) : BoardConsistent(board)

\* C2: updateCard with a cardId that is not a key of the matching project's
\* `cards` map leaves that map as it was.
C2_UpdateUnknownCard ==
    [][last'.op = "updateCard" =>
         \A i \in Matching(data, last'.projectId) :
            last'.cardId \notin DOMAIN data.projects[i].board.cards =>
               data'.projects[i].board.cards = data.projects[i].board.cards]_vars

\* the sequence s without its element at position k (1-based)
RemoveAt(s, k) == SubSeq(s, 1, k - 1) \o SubSeq(s, k + 1, Len(s))

Min(a, b) == IF a < b THEN a ELSE b

\* What C4 says of one board before (b) and after (b2) the move
MovePost(b, b2, fromColId, toColId, cardId, toIndex) ==
    LET from  == ColumnOf(b, fromColId).cardIds
        to    == ColumnOf(b, toColId).cardIds
        from2 == ColumnOf(b2, fromColId).cardIds
        to2   == ColumnOf(b2, toColId).cardIds
        at    == Min(toIndex, Len(to)) + 1
    IN  /\ cardId \notin Range(from2)
        /\ Len(to2) = Len(to) + 1
        /\ to2[at] = cardId
        /\ RemoveAt(to2, at) = to
        /\ from2 = FilterOut(from, cardId)
        /\ \A k \in DOMAIN b.columns :
              b.columns[k].id \notin {fromColId, toColId} => b2.columns[k] = b.columns[k]
        /\ [k \in DOMAIN b2.columns |-> b2.columns[k].id]
             = [k \in DOMAIN b.columns |-> b.columns[k].id]
        /\ b2.cards = b.cards

\* C4: moveCard between two different columns of a board, of a card listed in
\* the source column, to an index 0, 1, 2, ...: the card is gone from the
\* source column, sits at position min(toIndex, length of the target before
\* the move) of the target column, the other ids of both columns keep their
\* order, and the other columns and the `cards` map are unchanged.
C4_MoveCardPlacement ==
    \A projectId \in ProjectArgs(data), fromColId \in ColumnArgs, toColId \in ColumnArgs,
       cardId \in CardArgs(data), toIndex \in IndexArgs :
       \A i \in Matching(data, projectId) :
          MovePre(data.projects[i].board, fromColId, toColId, cardId) =>
             MovePost(data.projects[i].board,
                      moveCard(data, projectId, fromColId, toColId, cardId, toIndex).projects[i].board,
                      fromColId, toColId, cardId, toIndex)

\* a move of a listed card between two columns has run, with a toIndex past
\* the end of the target column
C4_Witness == last.op = "moveCard" /\ last.ok /\ last.pastEnd

\* C5: for a card c listed in column A and nowhere else, moveCard(A, B, c, 0)
\* followed by moveCard(B, A, c, 0) gives every column the set of card ids
\* it had before the two moves; c is again in A and in no other column.
C5_RoundTrip ==
    rt.stage = 2 =>
       \A i \in Matching(rt.pre, rt.call.projectId) :
          LET b0 == rt.pre.projects[i].board
              b2 == data.projects[i].board
              c  == rt.call.cardId
          IN  (MovePre(b0, rt.call.fromColId, rt.call.toColId, c) /\ Listed(b0, c) = 1) =>
                 /\ Membership(b2) = Membership(b0)
                 /\ c \in Range(ColumnOf(b2, rt.call.fromColId).cardIds)
                 /\ Listed(b2, c) = 1

\* a round trip has completed on a board where the card was listed once, and
\* the card came back at another index of its column
C5_Witness ==
    /\ rt.stage = 2
    /\ \E i \in Matching(rt.pre, rt.call.projectId) :
          /\ MovePre(rt.pre.projects[i].board, rt.call.fromColId, rt.call.toColId, rt.call.cardId)
          /\ Listed(rt.pre.projects[i].board, rt.call.cardId) = 1
          /\ data.projects[i].board # rt.pre.projects[i].board

\* C6: addCard with a projectId matching no project leaves the workspace
\* unchanged; otherwise `cards` gains exactly one entry, under the generated
\* id, whose id field is that id, and the id is prepended to the named
\* column, the other columns unchanged.
C6_AddCard ==
    [][last'.op = "addCard" =>
         IF Matching(data, last'.projectId) = {} THEN data' = data
         ELSE \A i \in Matching(data, last'.projectId) :
                LET b  == data.projects[i].board
                    b2 == data'.projects[i].board
                    id == last'.uids[i]
                IN  /\ id \notin DOMAIN b.cards
                    /\ DOMAIN b2.cards = DOMAIN b.cards \cup {id}
                    /\ \A k \in DOMAIN b.cards : b2.cards[k] = b.cards[k]
                    /\ b2.cards[id].id = id
                    /\ \A k \in DOMAIN b.columns :
                          b2.columns[k] =
                             IF b.columns[k].id = last'.columnId
                             THEN [b.columns[k] EXCEPT !.cardIds = <<id>> \o @]
                             ELSE b.columns[k]]_vars


-----------------------------------------------------------------------------
(* Claims about the app *)

\* the file's text parses and the parsed value is an object with a
\* `projects` field
HasProjectsField(text) ==
    /\ ~JSONparse(text).throws
    /\ JSONparse(text).value.type = "object"
    /\ "projects" \in JSONparse(text).value.fields

\* C3: import replaces the workspace only when the file parses as JSON and
\* the parsed value has a `projects` field; in every other case an alert is
\* shown and the workspace is left exactly as it was.
C3_ImportShapeCheck ==
    [][last'.op = "importJSON" =>
         /\ last'.set => HasProjectsField(last'.text)
         /\ (last'.set /\ mounted') => data' = JSONparse(last'.text).value.object
         /\ ~HasProjectsField(last'.text) =>
               /\ ~last'.set
               /\ last'.alert # Null
               /\ data' = data]_vars

\* a file without a `projects` field was refused on a workspace that was no
\* longer the seed
C3_Witness ==
    /\ last.op = "importJSON"
    /\ last.text = "{\"meta\":1}"
    /\ last.alert = "Invalid file"
    /\ data # sampleSeed

\* C7: createProject on N projects gives N+1 projects, the new one first and
\* the old ones after it unchanged and in order; the new board has the
\* columns todo, inprogress, done in that order, each empty, and no cards.
C7_CreateProject ==
    [][(last'.op = "createProject" /\ mounted') =>
         /\ Len(data'.projects) = Len(data.projects) + 1
         /\ Tail(data'.projects) = data.projects
         /\ Head(data'.projects).id = last'.id
         /\ [k \in DOMAIN Head(data'.projects).board.columns |->
               Head(data'.projects).board.columns[k].id] = <<"todo", "inprogress", "done">>
         /\ \A k \in DOMAIN Head(data'.projects).board.columns :
               Head(data'.projects).board.columns[k].cardIds = <<>>
         /\ DOMAIN Head(data'.projects).board.cards = {}]_vars

\* a project was created in the app next to the seed project
C7_Witness ==
    /\ last.op = "createProject"
    /\ Len(data.projects) = 2
    /\ data.projects[2] = sampleSeed.projects[1]

BoardsSound(d) ==
    \A board \in Boards(d) :
       /\ ListedIds(board) \subseteq DOMAIN board.cards
       /\ \A id \in ListedIds(board) : Listed(board, id) = 1

\* C10: whatever happened between drag start and drop, a drop leaves every
\* board with each listed id in `cards` and listed once.
C10_DropKeepsBoardsSound ==
    [][(last'.op = "onDropCard" /\ BoardsSound(data)) => BoardsSound(data')]_vars

\* C11: once the selection effect has nothing left to do, selectedProjectId
\* is null only when no project can be displayed, and otherwise is the id of
\* a project of the workspace, the one on display; hence a drop on the board
\* on display is never ignored for want of a selected project: it does
\* nothing only when dropped on the column the card came from.
C11_SelectionSettled ==
    /\ []((mounted /\ ~SelectionDue) =>
            IF selectedProjectId = Null
            THEN selectedProject(data, selectedProjectId) = NoProject
            ELSE /\ find(data, selectedProjectId) # NoProject
                 /\ selectedProject(data, selectedProjectId).id = selectedProjectId)
    /\ [][(last'.op = "onDropCard" /\ ~last'.moved) =>
             find(data, selectedProjectId) # NoProject]_vars

-----------------------------------------------------------------------------
(* Claims about the markdown preview *)

Markup == {PreOpen, PreClose, CodeOpen, CodeClose, H3Open, H3Close, H2Open, H2Close,
           H1Open, H1Close, StrongOpen, StrongClose, EmOpen, EmClose, AOpen, AMid,
           AClose, UlOpen, UlClose, ParaBreak, DivOpen, DivClose}

Entities == {<<"a", "m", "p", ";">>, <<"l", "t", ";">>, <<"g", "t", ";">>}

\* the number of occurrences of the characters of set S in the text s
Occurrences(s, S) == Cardinality({i \in DOMAIN s : s[i] \in S})

\* C8: in the preview of any description, no "<" or ">" is a character of
\* the input: each is inside a piece of markup the renderer emitted, every
\* "&", "<", ">" of the input has become an entity, and the preview of
\* "<script>" is the escaped text inside the wrapper, without a script tag.
C8_EscapedBeforeMarkup ==
    /\ \A i \in DOMAIN html :
          /\ html[i] \notin {"<", ">"}
          /\ html[i] \in Markup \/ html[i] \in (Chars \cup {"s", "c", "r", "i", "p", "t", "l", "g", "m", ";"})
          /\ html[i] = "&" => \E e \in Entities : Occurs(html, i + 1, e)
    /\ description # <<>> =>
          Occurrences(html, {"&"}) = Occurrences(description, {"&", "<", ">"})
    /\ description = Script =>
          html = <<DivOpen, "&", "l", "t", ";", "s", "c", "r", "i", "p", "t",
                   "&", "g", "t", ";", DivClose>>

\* a description with angle brackets inside emphasis was rendered: the
\* preview has the emitted <strong> and the brackets only as entities
C8_Witness ==
    /\ \E i \in DOMAIN description : description[i] = "<"
    /\ \E i \in DOMAIN html : html[i] = StrongOpen
    /\ \E i \in DOMAIN html : Occurs(html, i, <<"&", "l", "t", ";">>)

=============================================================================
